---- MODULE Spec2Model ----
(***************************************************************************)
(* BinDashtree (src/src/main.rs): genome manifest -> sketches -> pairwise  *)
(* distances -> PHYLIP matrix -> neighbour-joining tree.                   *)
(*                                                                         *)
(* Sequences are 1-based here: genome i of the source (0 <= i < n) is      *)
(* genomes[i + 1].  Text is a sequence of one-character strings.           *)
(* A single-precision or double-precision value is kept as an exact        *)
(* rational [num, den] (Hamming fraction, Jaccard, log argument) or as a   *)
(* count of 1e-9 units (distance); +infinity is kept apart (field inf).    *)
(***************************************************************************)
EXTENDS Integers, Sequences, FiniteSets, TLC

VARIABLES
    pc,           \* position of main
    failure,      \* stage whose panic ended the run ("" while none)
    kmer_size,    \* main: kmer_size
    threads,      \* main: threads (width of the global rayon pool)
    genomes,      \* main: genomes, the manifest lines
    sketcher,     \* sketch_with: the <Kmer, Sketcher> it runs as, while it runs
    sketchState,  \* per manifest line: state of its sketching task
    signatures,   \* results of the completed sketching tasks: (path, signature)
    sketches,     \* the Signature Table (HashMap<String, Vec<f32>>)
    tableWrites,  \* per key of the table: number of inserts made into it
    pairTasks,    \* the (i, j) items of the distance phase, in iteration order
    pairState,    \* per pair item: state of its task
    distances,    \* results of the completed pair tasks
    matrix,       \* build_distance_matrix: matrix
    cellWrites,   \* per cell of matrix: number of assignments after vec![..]
    phylip_data,  \* build_distance_matrix: phylip_data
    matrixFile,   \* the --output_matrix file: "absent", "created", "written"
    treeFile,     \* the --output_tree file: "absent", "created", "written"
    kmer,         \* hash_fn: its argument
    hashed        \* hash_fn: values handed to the sketching engine

vars == <<pc, failure, kmer_size, threads, genomes, sketcher, sketchState,
          signatures, sketches, tableWrites, pairTasks, pairState, distances,
          matrix, cellWrites, phylip_data, matrixFile, treeFile, kmer,
          hashed>>

(***************************************************************************)
(* Bounds                                                                  *)
(***************************************************************************)
MaxGenomes == 3

SigLen == 2

MaxKmerLen == 4

(***************************************************************************)
(* Inputs                                                                  *)
(***************************************************************************)
\* Requested k-mer sizes: both ends of every branch of sketch_genomes.
KmerSizes == {14, 15, 16, 17, 32, 33}

DensOpts == {0, 1}

ThreadCounts == {1, 2}

\* Genome paths of the manifest and what the file system holds for each.
GenomeA == <<"d", "/", "a">>

GenomeB == <<"l", "o", "n", "g", "_", "g", "e", "n", "o", "m", "e">>

GenomeC == <<"c">>

GenomeDir == <<"d", "/", ".", ".">>

Paths == {GenomeA, GenomeB, GenomeC, GenomeDir}

\* parse_fastx_file(path) succeeds (a directory is no FASTA/Q file).
Readable(path) == path # GenomeDir

\* signature[0] of sketch_compressedkmer_seqs over the records of path:
\* a deterministic engine, one signature of SigLen values per genome.
Sketch(path) ==
    IF path = GenomeA THEN [p \in 1..SigLen |-> 0]
    ELSE IF path = GenomeB THEN [p \in 1..SigLen |-> IF p = SigLen THEN 1 ELSE 0]
    ELSE [p \in 1..SigLen |-> 1]

RECURSIVE SeqsUpTo(_, _)
SeqsUpTo(S, n) ==
    IF n = 0 THEN {<<>>}
    ELSE LET shorter == SeqsUpTo(S, n - 1)
         IN  shorter \cup {Append(s, x) : s \in shorter, x \in S}

Manifests == SeqsUpTo(Paths, MaxGenomes)

(***************************************************************************)
(* TreeAlgo::from_str                                                      *)
(***************************************************************************)
TreeMethods == {"naive", "rapidnj", "hybrid", "upgma"}

from_str(s) == IF s \in {"naive", "rapidnj", "hybrid"} THEN "Ok" ELSE "Err"

(***************************************************************************)
(* sketch_genomes: the k-mer representation and the densification variant  *)
(***************************************************************************)
\* Largest k each representation of kmerutils holds.
MaxK(repr) ==
    CASE repr = "Kmer32bit" -> 14
      [] repr = "Kmer16b32bit" -> 16
      [] repr = "Kmer64bit" -> 32

\* The branch of sketch_genomes taken for kmer_size k: a representation, or
\* "panic" for the last else.
KmerRepr(k) ==
    IF k <= 14 THEN "Kmer32bit"
    ELSE IF k = 16 THEN "Kmer16b32bit"
    ELSE IF k <= 32 THEN "Kmer64bit"
    ELSE "panic"

SketchVariant(d) == IF d = 0 THEN "OptDensHashSketch" ELSE "RevOptDensHashSketch"

(***************************************************************************)
(* hash_fn of sketch_with, over 2-bit compressed k-mers: a k-mer is the    *)
(* sequence of its k base codes (A=0 C=1 G=2 T=3), most significant first, *)
(* which orders k-mers of one length as their compressed values do.        *)
(***************************************************************************)
\* Bits of the u64 the mask is computed in.
WordBits == 64

Bases == 0..3

KmersOfLen(k) == [1..k -> Bases]

ShortKmers == UNION {KmersOfLen(k) : k \in 1..MaxKmerLen}

\* k-mers of the largest k a u64 holds (Kmer64bit, k = 32): the patterns of
\* one and two bases, repeated.
LongKmers ==
    {[p \in 1..(WordBits \div 2) |-> s[((p - 1) % Len(s)) + 1]] :
        s \in KmersOfLen(1) \cup KmersOfLen(2)}

Kmers == ShortKmers \cup LongKmers

\* The build decides what an overflowing shift does.
Builds == {"debug", "release"}

\* Kmer::reverse_complement: the bases in reverse order, each complemented.
reverse_complement(x) == [p \in 1..Len(x) |-> 3 - x[Len(x) + 1 - p]]

\* a < b as compressed values of one length
KmerLess(a, b) ==
    \E p \in 1..Len(a) : a[p] < b[p] /\ \A q \in 1..(p - 1) : a[q] = b[q]

\* Ord::min(a, b): b only when b < a.
KmerMin(a, b) == IF KmerLess(b, a) THEN b ELSE a

\* (1u64 << (nb_alphabet_bits * nb_base)) - 1, as the number of its low
\* bits that are set; -1 for the panic of a debug build on a shift by 64,
\* which a release build takes modulo 64.
MaskBits(x, build) ==
    LET shift == 2 * Len(x)
    IN  IF shift < WordBits THEN shift
        ELSE IF build = "release" THEN shift % WordBits
        ELSE -1

\* value & mask, for a mask of the low bits
BitAnd(v, bits) == [p \in 1..Len(v) |-> IF 2 * (Len(v) - p) < bits THEN v[p] ELSE 0]

hash_fn_nomin(x, build) ==
    IF MaskBits(x, build) < 0 THEN [panic |-> TRUE, val |-> <<>>]
    ELSE [panic |-> FALSE, val |-> BitAnd(x, MaskBits(x, build))]

hash_fn(x, build) ==
    LET canonical == KmerMin(reverse_complement(x), x)
    IN  IF MaskBits(x, build) < 0 THEN [panic |-> TRUE, val |-> <<>>]
        ELSE [panic |-> FALSE, val |-> BitAnd(canonical, MaskBits(x, build))]

(***************************************************************************)
(* The closure of build_distance_matrix: Hamming -> Jaccard -> distance    *)
(***************************************************************************)
\* DistHamming.eval: the fraction of positions where the signatures differ.
Hamming(va, vb) ==
    [num |-> Cardinality({p \in 1..Len(va) : va[p] # vb[p]}), den |-> Len(va)]

\* std::f32::EPSILON = 2^-23
EpsilonDen == 8388608

F32Epsilon == [num |-> 1, den |-> EpsilonDen]

\* if hamming_distance == 0.0 { EPSILON } else { hamming_distance }
GuardZero(h) == IF h.num = 0 THEN F32Epsilon ELSE h

\* numerator / denominator with jaccard = 1 - h:
\* 2 * (1 - h) over 1 + (1 - h), both over h.den.
Fraction(h) == [num |-> 2 * (h.den - h.num), den |-> 2 * h.den - h.num]

\* -ln(f) in units of 1e-9, for the arguments signatures of up to 4 values
\* give (d differing positions of L give 2(L-d)/(2L-d)) and for the
\* argument the EPSILON substitute gives.
NegLnNano(f) ==
    CASE f.num = f.den -> 0
      [] f.num + 1 = f.den /\ f.den = 2 * EpsilonDen - 1 -> 60
      [] 7 * f.num = 6 * f.den -> 154150680
      [] 5 * f.num = 4 * f.den -> 223143551
      [] 3 * f.num = 2 * f.den -> 405465108
      [] 2 * f.num = f.den -> 693147181
      [] 5 * f.num = 2 * f.den -> 916290732

Zero == [inf |-> FALSE, nano |-> 0]

\* -fraction.ln() / (kmer_size as f64); ln(0) is -infinity.
MashDistance(h, k) ==
    LET fraction == Fraction(GuardZero(h))
    IN  IF fraction.num = 0 THEN [inf |-> TRUE, nano |-> 0]
        ELSE [inf |-> FALSE, nano |-> NegLnNano(fraction) \div k]

\* The log argument and the result of one pair, from two signatures.
Distance(va, vb, k) == MashDistance(Hamming(va, vb), k)

(***************************************************************************)
(* The serializer of build_distance_matrix                                 *)
(***************************************************************************)
Digits == <<"0", "1", "2", "3", "4", "5", "6", "7", "8", "9">>

\* format!("{}", n) of an unsigned integer
RECURSIVE Decimal(_)
Decimal(n) ==
    IF n < 10 THEN <<Digits[n + 1]>>
    ELSE Append(Decimal(n \div 10), Digits[(n % 10) + 1])

\* The last w decimal digits of n, zero-filled.
RECURSIVE FixedDigits(_, _)
FixedDigits(n, w) ==
    IF w = 0 THEN <<>>
    ELSE Append(FixedDigits(n \div 10, w - 1), Digits[(n % 10) + 1])

Spaces(w) == [p \in 1..w |-> " "]

\* Width w of a format spec is a minimum: shorter text is filled with
\* spaces, longer text is written whole.
PadRight(text, w) == IF Len(text) < w THEN text \o Spaces(w - Len(text)) ELSE text

PadLeft(text, w) == IF Len(text) < w THEN Spaces(w - Len(text)) \o text ELSE text

\* The field width of "{:10}" and the width and precision of "{:8.6}".
NameWidth == 10

DistWidth == 8

DistPrecision == 6

\* write!(phylip_data, "{:10}", name): text is left-aligned.
FormatName_truncated(name) ==
    IF Len(name) > NameWidth THEN SubSeq(name, 1, NameWidth) ELSE PadRight(name, NameWidth)

FormatName(name) == PadRight(name, NameWidth)

\* write!(phylip_data, "{:8.6}", d): rounded to 6 decimals, right-aligned;
\* an infinite f64 is written "inf".
FormatDistance(d) ==
    IF d.inf THEN PadLeft(<<"i", "n", "f">>, DistWidth)
    ELSE LET micro == (d.nano + 500) \div 1000
         IN  PadLeft(Decimal(micro \div 1000000) \o <<".">>
                        \o FixedDigits(micro % 1000000, DistPrecision), DistWidth)

\* The pieces of text between its occurrences of sep (one more than the
\* occurrences; a piece may be empty).
SepAt(text, sep, k) ==
    IF k = 0 THEN 0
    ELSE CHOOSE q \in 1..Len(text) :
            /\ text[q] = sep
            /\ Cardinality({r \in 1..q : text[r] = sep}) = k

SepCount(text, sep) == Cardinality({q \in 1..Len(text) : text[q] = sep})

Split(text, sep) ==
    [k \in 1..(SepCount(text, sep) + 1) |->
        SubSeq(text, SepAt(text, sep, k - 1) + 1,
               IF k > SepCount(text, sep) THEN Len(text) ELSE SepAt(text, sep, k) - 1)]

\* The text of path between its "/" separators.
SplitPath(path) == Split(path, "/")

IsNamed(c) == c # <<>> /\ c # <<".">>

\* Path::file_name: the last component when it is a normal one; <<>> is None
\* (no component, or a path ending in "..").
file_name(path) ==
    LET comps == SelectSeq(SplitPath(path), IsNamed)
    IN  IF comps = <<>> THEN <<>>
        ELSE IF comps[Len(comps)] = <<".", ".">> THEN <<>>
        ELSE comps[Len(comps)]

\* .file_name().and_then(to_str).unwrap_or(&genomes[i])
GenomeName(path) == IF file_name(path) = <<>> THEN path ELSE file_name(path)

RECURSIVE RowFields(_, _)
RowFields(row, j) ==
    IF j > Len(row) THEN <<>>
    ELSE <<" ">> \o FormatDistance(row[j]) \o RowFields(row, j + 1)

PhylipLine(path, row) == FormatName(GenomeName(path)) \o RowFields(row, 1) \o <<"\n">>

RECURSIVE PhylipRows(_, _, _)
PhylipRows(paths, m, i) ==
    IF i > Len(paths) THEN <<>>
    ELSE PhylipLine(paths[i], m[i]) \o PhylipRows(paths, m, i + 1)

Phylip(paths, m) == Decimal(Len(paths)) \o <<"\n">> \o PhylipRows(paths, m, 1)

(***************************************************************************)
(* The two parallel phases: items, merges                                  *)
(***************************************************************************)
n == Len(genomes)

\* HashMap::insert, with the count of inserts per key.
Insert_keepFirst(table, key, val) ==
    IF key \in DOMAIN table.map THEN table
    ELSE [map |-> [k \in DOMAIN table.map \cup {key} |-> IF k = key THEN val ELSE table.map[k]],
          writes |-> [k \in DOMAIN table.writes \cup {key} |->
                         IF k = key THEN 1 ELSE table.writes[k]]]

Insert(table, key, val) ==
    [map |-> [k \in DOMAIN table.map \cup {key} |-> IF k = key THEN val ELSE table.map[k]],
     writes |-> [k \in DOMAIN table.writes \cup {key} |->
                    IF k = key
                    THEN (IF key \in DOMAIN table.writes THEN table.writes[key] ELSE 0) + 1
                    ELSE table.writes[k]]]

\* .collect() into the HashMap: the (path, signature) items in item order.
RECURSIVE CollectFrom(_, _)
CollectFrom(table, i) ==
    IF i > n THEN table
    ELSE IF i \in DOMAIN signatures
         THEN CollectFrom(Insert(table, signatures[i].path, signatures[i].sig), i + 1)
         ELSE CollectFrom(table, i + 1)

CollectTable == CollectFrom([map |-> <<>>, writes |-> <<>>], 1)

\* (i + 1..n).into_par_iter() for one i
PairsFrom_inclusive(i, len) == [x \in 1..(len - i + 1) |-> <<i, i + x - 1>>]

PairsFrom(i, len) == [x \in 1..(len - i) |-> <<i, i + x>>]

\* (0..n).into_par_iter().flat_map(..)
RECURSIVE FlatMap(_, _)
FlatMap(i, len) == IF i > len THEN <<>> ELSE PairsFrom(i, len) \o FlatMap(i + 1, len)

PairList(len) == FlatMap(1, len)

\* The closure's result for item p, from the table.
PairResult_shared(p) ==
    LET others == {q \in DOMAIN pairState : q # p /\ pairState[q] = "running"}
        j == IF others = {} THEN pairTasks[p][2]
             ELSE pairTasks[CHOOSE q \in others : TRUE][2]
    IN  Distance(sketches[genomes[pairTasks[p][1]]], sketches[genomes[j]], kmer_size)

PairResult(p) ==
    Distance(sketches[genomes[pairTasks[p][1]]], sketches[genomes[pairTasks[p][2]]], kmer_size)

Assign(acc, i, j, d) ==
    [m |-> [acc.m EXCEPT ![i][j] = d], w |-> [acc.w EXCEPT ![i][j] = @ + 1]]

\* matrix[i][j] = dist; matrix[j][i] = dist;
FillStep_upper(acc, r) == Assign(acc, r.i, r.j, r.dist)

FillStep(acc, r) == Assign(Assign(acc, r.i, r.j, r.dist), r.j, r.i, r.dist)

\* for &(i, j, dist) in &distances { .. } over vec![vec![0.0; n]; n]
RECURSIVE FillFrom(_, _)
FillFrom(acc, p) ==
    IF p > Len(distances) THEN acc ELSE FillFrom(FillStep(acc, distances[p]), p + 1)

FillMatrix ==
    FillFrom([m |-> [i \in 1..n |-> [j \in 1..n |-> Zero]],
              w |-> [i \in 1..n |-> [j \in 1..n |-> 0]]], 1)

Running(state) == Cardinality({i \in DOMAIN state : state[i] = "running"})

(***************************************************************************)
(* main                                                                    *)
(***************************************************************************)
Init ==
    /\ pc = "start"
    /\ failure = ""
    /\ kmer_size = 16
    /\ threads = 1
    /\ genomes = <<>>
    /\ sketcher = <<"", "">>
    /\ sketchState = <<>>
    /\ signatures = <<>>
    /\ sketches = <<>>
    /\ tableWrites = <<>>
    /\ pairTasks = <<>>
    /\ pairState = <<>>
    /\ distances = <<>>
    /\ matrix = <<>>
    /\ cellWrites = <<>>
    /\ phylip_data = <<>>
    /\ matrixFile = "absent"
    /\ treeFile = "absent"
    /\ kmer = <<0>>
    /\ hashed = <<>>

\* A panic of the main thread, or one propagated to it by a join.
Fail(stage) == pc' = "failed" /\ failure' = stage

Goto(next) == pc' = next /\ failure' = failure

argVars == <<kmer_size, threads>>

sketchVars == <<sketcher, sketchState, signatures, sketches, tableWrites>>

pairVars == <<pairTasks, pairState, distances, matrix, cellWrites, phylip_data>>

fileVars == <<matrixFile, treeFile>>

kmerVars == <<kmer, hashed>>

\* Lines 342-358: the options, the tree method, the global pool.
ParseArgs ==
    /\ pc = "start"
    /\ \E k \in KmerSizes, t \in ThreadCounts, method \in TreeMethods :
          /\ kmer_size' = k
          /\ threads' = t
          /\ IF from_str(method) = "Err" THEN Fail("args") ELSE Goto("manifest")
    /\ UNCHANGED <<genomes, sketchVars, pairVars, fileVars, kmerVars>>

\* Lines 360-365: the manifest cannot be opened or read, or its lines.
LoadManifest ==
    /\ pc = "manifest"
    /\ \/ Fail("manifest") /\ UNCHANGED genomes
       \/ \E m \in Manifests : genomes' = m /\ Goto("dispatch")
    /\ UNCHANGED <<argVars, sketchVars, pairVars, fileVars, kmerVars>>

\* sketch_genomes up to the par_iter of sketch_with.  dens, an option read
\* nowhere else, is drawn here.
Dispatch ==
    /\ pc = "dispatch"
    /\ IF KmerRepr(kmer_size) = "panic"
       THEN Fail("config") /\ UNCHANGED <<sketcher, sketchState>>
       ELSE /\ \E dens \in DensOpts :
                  sketcher' = <<KmerRepr(kmer_size), SketchVariant(dens)>>
            /\ sketchState' = [i \in 1..n |-> "todo"]
            /\ Goto("sketch")
    /\ UNCHANGED <<argVars, genomes, signatures, sketches, tableWrites, pairVars,
                   fileVars, kmerVars>>

\* A worker of the pool takes the task of manifest line i.
SketchStart(i) ==
    /\ pc = "sketch"
    /\ sketchState[i] = "todo"
    /\ Running(sketchState) < threads
    /\ sketchState' = [sketchState EXCEPT ![i] = "running"]
    /\ UNCHANGED <<pc, failure, argVars, genomes, sketcher, signatures, sketches,
                   tableWrites, pairVars, fileVars, kmerVars>>

\* The closure of sketch_with: read_sequences panics, or the task yields
\* (path.clone(), signature[0].clone()).
SketchFinish(i) ==
    /\ pc = "sketch"
    /\ sketchState[i] = "running"
    /\ IF Readable(genomes[i])
       THEN /\ sketchState' = [sketchState EXCEPT ![i] = "done"]
            /\ signatures' = (i :> [path |-> genomes[i], sig |-> Sketch(genomes[i])])
                                @@ signatures
       ELSE /\ sketchState' = [sketchState EXCEPT ![i] = "panicked"]
            /\ UNCHANGED signatures
    /\ UNCHANGED <<pc, failure, argVars, genomes, sketcher, sketches, tableWrites,
                   pairVars, fileVars, kmerVars>>

\* The join of the sketching phase lets main go on once every task is done.
AllSketched_any == \E i \in 1..n : sketchState[i] = "done"

AllSketched == \A i \in 1..n : sketchState[i] = "done"

\* .collect() returns the table and sketch_with drops its sketcher;
\* build_distance_matrix lays out its items.
SketchJoin ==
    /\ pc = "sketch"
    /\ AllSketched
    /\ sketcher' = <<"", "">>
    /\ sketches' = CollectTable.map
    /\ tableWrites' = CollectTable.writes
    /\ pairTasks' = PairList(n)
    /\ pairState' = [p \in 1..Len(PairList(n)) |-> "todo"]
    /\ Goto("distance")
    /\ UNCHANGED <<argVars, genomes, sketchState, signatures, distances, matrix,
                   cellWrites, phylip_data, fileVars, kmerVars>>

\* The panic of a sketching task reaches main when no task is running.
SketchAbort ==
    /\ pc = "sketch"
    /\ \E i \in 1..n : sketchState[i] = "panicked"
    /\ Running(sketchState) = 0
    /\ Fail("genome")
    /\ UNCHANGED <<argVars, genomes, sketchVars, pairVars, fileVars, kmerVars>>

PairStart(p) ==
    /\ pc = "distance"
    /\ pairState[p] = "todo"
    /\ Running(pairState) < threads
    /\ pairState' = [pairState EXCEPT ![p] = "running"]
    /\ UNCHANGED <<pc, failure, argVars, genomes, sketchVars, pairTasks, distances,
                   matrix, cellWrites, phylip_data, fileVars, kmerVars>>

\* The closure of build_distance_matrix; sketches[..] panics on a missing key.
PairFinish(p) ==
    /\ pc = "distance"
    /\ pairState[p] = "running"
    /\ IF /\ genomes[pairTasks[p][1]] \in DOMAIN sketches
          /\ genomes[pairTasks[p][2]] \in DOMAIN sketches
       THEN /\ pairState' = [pairState EXCEPT ![p] = "done"]
            /\ distances' = (p :> [i |-> pairTasks[p][1], j |-> pairTasks[p][2],
                                   dist |-> PairResult(p)]) @@ distances
       ELSE /\ pairState' = [pairState EXCEPT ![p] = "panicked"]
            /\ UNCHANGED distances
    /\ UNCHANGED <<pc, failure, argVars, genomes, sketchVars, pairTasks, matrix,
                   cellWrites, phylip_data, fileVars, kmerVars>>

\* .collect() of the distances, then the fill of the matrix.
DistanceJoin ==
    /\ pc = "distance"
    /\ \A p \in DOMAIN pairState : pairState[p] \in {"done", "panicked"}
    /\ IF \E p \in DOMAIN pairState : pairState[p] = "panicked"
       THEN Fail("distance") /\ UNCHANGED <<matrix, cellWrites>>
       ELSE /\ matrix' = FillMatrix.m
            /\ cellWrites' = FillMatrix.w
            /\ Goto("serialize")
    /\ UNCHANGED <<argVars, genomes, sketchVars, pairTasks, pairState, distances,
                   phylip_data, fileVars, kmerVars>>

\* Lines 200-215.
Serialize ==
    /\ pc = "serialize"
    /\ phylip_data' = Phylip(genomes, matrix)
    /\ Goto("matrix_out")
    /\ UNCHANGED <<argVars, genomes, sketchVars, pairTasks, pairState, distances,
                   matrix, cellWrites, fileVars, kmerVars>>

\* Lines 375-378.  output_matrix, an option read nowhere else, is drawn
\* here: None, or Some with File::create failing, write_all failing, or
\* both succeeding.
WriteMatrix ==
    /\ pc = "matrix_out"
    /\ \/ Goto("tree") /\ UNCHANGED matrixFile
       \/ Fail("matrix_file") /\ UNCHANGED matrixFile
       \/ Fail("matrix_file") /\ matrixFile' = "created"
       \/ Goto("tree") /\ matrixFile' = "written"
    /\ UNCHANGED <<argVars, genomes, sketchVars, pairVars, treeFile, kmerVars>>

\* build_tree: the solver reads the matrix and solves, or panics.
BuildTree_openFirst ==
    /\ pc = "tree"
    /\ treeFile' = "created"
    /\ \/ Fail("tree")
       \/ Goto("tree_out")
    /\ UNCHANGED <<argVars, genomes, sketchVars, pairVars, matrixFile, kmerVars>>

BuildTree ==
    /\ pc = "tree"
    /\ \/ Fail("tree")
       \/ Goto("tree_out")
    /\ UNCHANGED <<argVars, genomes, sketchVars, pairVars, fileVars, kmerVars>>

\* Lines 383-385 (output_tree is a required option).
WriteTree ==
    /\ pc = "tree_out"
    /\ \/ Fail("tree_file") /\ UNCHANGED treeFile
       \/ Fail("tree_file") /\ treeFile' = "created"
       \/ Goto("done") /\ treeFile' = "written"
    /\ UNCHANGED <<argVars, genomes, sketchVars, pairVars, matrixFile, kmerVars>>

Next ==
    \/ ParseArgs
    \/ LoadManifest
    \/ Dispatch
    \/ \E i \in DOMAIN sketchState : SketchStart(i)
    \/ \E i \in DOMAIN sketchState : SketchFinish(i)
    \/ SketchJoin
    \/ SketchAbort
    \/ \E p \in DOMAIN pairState : PairStart(p)
    \/ \E p \in DOMAIN pairState : PairFinish(p)
    \/ DistanceJoin
    \/ Serialize
    \/ WriteMatrix
    \/ BuildTree
    \/ WriteTree

Spec == Init /\ [][Next]_vars

(***************************************************************************)
(* hash_fn applied to a k-mer and to its reverse complement                *)
(***************************************************************************)
KmerInit ==
    /\ pc = "start"
    /\ failure = ""
    /\ kmer_size = 16
    /\ threads = 1
    /\ genomes = <<>>
    /\ sketcher = <<"", "">>
    /\ sketchState = <<>>
    /\ signatures = <<>>
    /\ sketches = <<>>
    /\ tableWrites = <<>>
    /\ pairTasks = <<>>
    /\ pairState = <<>>
    /\ distances = <<>>
    /\ matrix = <<>>
    /\ cellWrites = <<>>
    /\ phylip_data = <<>>
    /\ matrixFile = "absent"
    /\ treeFile = "absent"
    /\ kmer \in Kmers
    /\ hashed = <<>>

\* The engine calls hash_fn on a k-mer of a strand and, for the other
\* strand, on its reverse complement.
HashKmer ==
    /\ hashed = <<>>
    /\ \E build \in Builds :
          hashed' = <<hash_fn(kmer, build), hash_fn(reverse_complement(kmer), build)>>
    /\ UNCHANGED <<pc, failure, argVars, genomes, sketchVars, pairVars, fileVars, kmer>>

KmerNext == HashKmer

SpecKmer == KmerInit /\ [][KmerNext]_vars

(***************************************************************************)
(* Stages of a run, read off pc and, after a panic, off failure            *)
(***************************************************************************)
PastDispatch == pc \notin {"start", "manifest", "dispatch"} /\ failure \notin {"args", "manifest"}

\* sketch_with is running, or a panic ended the run in it.
InSketch == pc = "sketch" \/ failure = "genome"

PastSketch ==
    \/ pc \in {"distance", "serialize", "matrix_out", "tree", "tree_out", "done"}
    \/ failure \in {"distance", "matrix_file", "tree", "tree_file"}

PastFill ==
    \/ pc \in {"serialize", "matrix_out", "tree", "tree_out", "done"}
    \/ failure \in {"matrix_file", "tree", "tree_file"}

Occurrences(path) == Cardinality({i \in 1..n : genomes[i] = path})

GenomeSet == {genomes[i] : i \in 1..n}

\* The position of item (i, j) in pairTasks.
ItemsOf(i, j) == {p \in 1..Len(pairTasks) : pairTasks[p] = <<i, j>>}

(***************************************************************************)
(* C1: once sketch_genomes has dispatched, k in 1..14 has selected the     *)
(* narrow representation, k = 16 the medium one, k in 17..32 the wide one, *)
(* the selected representation holds k, and for k = 15 and for k > 32 the  *)
(* run has failed with a configuration error with no genome read or        *)
(* sketched.                                                               *)
(***************************************************************************)
C1_Dispatch ==
    /\ InSketch =>
          /\ kmer_size \in 1..14 => sketcher[1] = "Kmer32bit"
          /\ kmer_size = 16 => sketcher[1] = "Kmer16b32bit"
          /\ kmer_size \in 17..32 => sketcher[1] = "Kmer64bit"
          /\ MaxK(sketcher[1]) >= kmer_size
    /\ (PastDispatch /\ (kmer_size = 15 \/ kmer_size > 32)) =>
          /\ pc = "failed" /\ failure = "config"
          /\ sketchState = <<>> /\ signatures = <<>> /\ sketches = <<>>

(***************************************************************************)
(* C2: for every pair whose distance has been computed, the argument of    *)
(* the logarithm is strictly positive and at most 1, and the stored        *)
(* distance is finite and >= 0.                                            *)
(***************************************************************************)
C2_DistanceFinite ==
    \A p \in DOMAIN distances :
        LET r == distances[p]
            arg == Fraction(GuardZero(Hamming(sketches[genomes[r.i]], sketches[genomes[r.j]])))
        IN  /\ arg.num > 0 /\ arg.num <= arg.den
            /\ ~r.dist.inf /\ r.dist.nano >= 0

(***************************************************************************)
(* C3: the matrix built for any genome list (repeated paths included) is   *)
(* symmetric with a zero diagonal, and every off-diagonal cell holds the   *)
(* distance computed for its unordered pair.                               *)
(***************************************************************************)
C3_SymmetricZeroDiagonal ==
    PastFill =>
        /\ DOMAIN matrix = 1..n
        /\ \A i \in 1..n : DOMAIN matrix[i] = 1..n /\ matrix[i][i] = Zero
        /\ \A i, j \in 1..n : matrix[i][j] = matrix[j][i]
        /\ \A i, j \in 1..n : i < j =>
              /\ matrix[i][j] = Distance(sketches[genomes[i]], sketches[genomes[j]], kmer_size)
              /\ \E p \in ItemsOf(i, j) : matrix[i][j] = distances[p].dist

C3_Witness ==
    /\ PastFill
    /\ n = 3
    /\ genomes[1] = genomes[2]
    /\ genomes[1] # genomes[3]
    /\ matrix[1][3] # Zero
    /\ matrix[1][2] # Zero

(***************************************************************************)
(* C4: a failure while parsing the options, loading the manifest,          *)
(* dispatching, reading or sketching a genome or estimating distances      *)
(* leaves neither the matrix file nor the tree file; a failure of the      *)
(* matrix output or of tree construction leaves no tree file.              *)
(***************************************************************************)
C4_NoOutputAfterFailure ==
    /\ failure \in {"args", "manifest", "config", "genome", "distance"} =>
          matrixFile = "absent" /\ treeFile = "absent"
    /\ failure \in {"matrix_file", "tree"} => treeFile = "absent"
    /\ ~PastFill => matrixFile = "absent" /\ treeFile = "absent"

C4_Witness ==
    /\ pc = "failed"
    /\ failure = "genome"
    /\ n = 3
    /\ Cardinality({i \in 1..n : ~Readable(genomes[i])}) = 1
    /\ \E i \in 1..n : sketchState[i] = "done"
    /\ matrixFile = "absent"
    /\ treeFile = "absent"

(***************************************************************************)
(* C5: no pair task has started before the sketching task of every         *)
(* manifest line is done and its signature is in the table, and nothing is *)
(* serialized before every pair's distance is computed and in the matrix.  *)
(***************************************************************************)
C5_PhaseBarrier ==
    /\ (\E p \in DOMAIN pairState : pairState[p] # "todo") =>
          \A i \in 1..n :
              /\ sketchState[i] = "done"
              /\ genomes[i] \in DOMAIN sketches
              /\ sketches[genomes[i]] = signatures[i].sig
    /\ phylip_data # <<>> =>
          /\ \A p \in 1..Len(pairTasks) : pairState[p] = "done" /\ p \in DOMAIN distances
          /\ PastFill

C5_Witness ==
    /\ pc = "distance"
    /\ n = 3
    /\ \E p \in DOMAIN pairState : pairState[p] = "running"
    /\ \E p \in DOMAIN pairState : pairState[p] = "todo"
    /\ \E p \in DOMAIN pairState : pairState[p] = "done"

(***************************************************************************)
(* C6 as stated: once the table is built, each of its keys has been        *)
(* written exactly once.                                                   *)
(***************************************************************************)
C6_WrittenOnce ==
    PastSketch => \A key \in DOMAIN sketches : tableWrites[key] = 1

(***************************************************************************)
(* C6 as amended: the table is empty until the sketching phase has joined; *)
(* from then on, in every later state, its keys are the paths of the       *)
(* manifest, each written once per manifest line that names it (exactly    *)
(* once when no path is repeated) with the signature of that line's task,  *)
(* and never again once distance estimation has started.                   *)
(***************************************************************************)
C6_WritesPerManifestLine ==
    /\ ~PastSketch => sketches = <<>> /\ tableWrites = <<>>
    /\ PastSketch =>
          /\ DOMAIN sketches = GenomeSet
          /\ DOMAIN tableWrites = GenomeSet
          /\ \A key \in GenomeSet : tableWrites[key] = Occurrences(key)
          /\ \A i \in 1..n : sketches[genomes[i]] = signatures[i].sig

C6_Witness ==
    /\ pc = "distance"
    /\ n = 3
    /\ \E key \in DOMAIN tableWrites : tableWrites[key] = 2
    /\ \E key \in DOMAIN tableWrites : tableWrites[key] = 1
    /\ \E p \in DOMAIN pairState : pairState[p] = "done"

(***************************************************************************)
(* Reading phylip_data back                                                *)
(***************************************************************************)
\* The text between the "\n" of data (the last piece follows the last "\n").
SplitLines(data) == Split(data, "\n")

IsDigit(c) == \E v \in 1..10 : Digits[v] = c

DigitValue(c) == (CHOOSE v \in 1..10 : Digits[v] = c) - 1

RECURSIVE DigitsValue(_)
DigitsValue(text) ==
    IF text = <<>> THEN 0
    ELSE 10 * DigitsValue(SubSeq(text, 1, Len(text) - 1)) + DigitValue(text[Len(text)])

\* text is d.dddddd and reads as the distance d rounded to 1e-6.
IsFixed6(text, d) ==
    /\ Len(text) = DistWidth
    /\ IsDigit(text[1])
    /\ text[2] = "."
    /\ \A q \in 3..DistWidth : IsDigit(text[q])
    /\ ~d.inf
    /\ DigitsValue(<<text[1]>> \o SubSeq(text, 3, DistWidth)) = (d.nano + 500) \div 1000

IsInf(text, d) == d.inf /\ text = <<" ", " ", " ", " ", " ", "i", "n", "f">>

\* The j-th field of 1 + DistWidth characters after the first w of line.
FieldAt(line, w, j) == SubSeq(line, w + (j - 1) * (DistWidth + 1) + 1, w + j * (DistWidth + 1))

\* line is a name field of w characters holding shown, then n distance
\* fields for row, each a space and the text of a distance.
IsRow(line, w, shown, row, allowInf) ==
    /\ Len(line) = w + n * (DistWidth + 1)
    /\ SubSeq(line, 1, Len(shown)) = shown
    /\ \A q \in (Len(shown) + 1)..w : line[q] = " "
    /\ \A j \in 1..n :
          /\ FieldAt(line, w, j)[1] = " "
          /\ \/ IsFixed6(Tail(FieldAt(line, w, j)), row[j])
             \/ allowInf /\ IsInf(Tail(FieldAt(line, w, j)), row[j])

(***************************************************************************)
(* C7 as stated: the output is the line n, then n lines in manifest order; *)
(* line i is the name of genome i padded or truncated to 10 characters,    *)
(* then n space-separated distances matrix[i][..] with 6 decimal digits.   *)
(***************************************************************************)
C7_FixedWidthNames ==
    phylip_data # <<>> =>
        LET lines == SplitLines(phylip_data)
        IN  /\ Len(lines) = n + 2
            /\ lines[1] = Decimal(n)
            /\ lines[n + 2] = <<>>
            /\ \A i \in 1..n :
                  LET name == GenomeName(genomes[i])
                      shown == IF Len(name) > NameWidth THEN SubSeq(name, 1, NameWidth) ELSE name
                  IN  IsRow(lines[i + 1], NameWidth, shown, matrix[i], FALSE)

(***************************************************************************)
(* C7 as amended: the output is the line n, then n lines in manifest       *)
(* order; line i is the name of genome i written in full and filled with   *)
(* spaces up to 10 characters (a longer name is not truncated and makes    *)
(* the name field wider), then n fields for matrix[i][..], each a space    *)
(* and the distance right-aligned in 8 characters, with 6 decimal digits   *)
(* when it is finite and as "inf" when it is infinite.                     *)
(***************************************************************************)
C7_PhylipFormat ==
    phylip_data # <<>> =>
        LET lines == SplitLines(phylip_data)
        IN  /\ Len(lines) = n + 2
            /\ lines[1] = Decimal(n)
            /\ lines[n + 2] = <<>>
            /\ \A i \in 1..n :
                  LET name == GenomeName(genomes[i])
                      w == IF Len(name) > NameWidth THEN Len(name) ELSE NameWidth
                  IN  IsRow(lines[i + 1], w, name, matrix[i], TRUE)

C7_Witness ==
    /\ phylip_data # <<>>
    /\ n = 3
    /\ \E i \in 1..n : Len(GenomeName(genomes[i])) > NameWidth
    /\ \E i \in 1..n : Len(GenomeName(genomes[i])) < NameWidth
    /\ \E i, j \in 1..n : matrix[i][j].inf
    /\ \E i, j \in 1..n : ~matrix[i][j].inf /\ matrix[i][j].nano >= 1000

(***************************************************************************)
(* C8: whatever the order in which the sketching tasks and the pair tasks  *)
(* complete and whatever the width of the pool, the table, the matrix and  *)
(* the serialized bytes are the ones the manifest, k and the engine fix.   *)
(***************************************************************************)
ExpectedMatrix ==
    [i \in 1..n |-> [j \in 1..n |->
        IF i = j THEN Zero
        ELSE Distance(Sketch(genomes[IF i < j THEN i ELSE j]),
                      Sketch(genomes[IF i < j THEN j ELSE i]), kmer_size)]]

C8_Deterministic ==
    /\ PastSketch => sketches = [path \in GenomeSet |-> Sketch(path)]
    /\ PastFill => matrix = ExpectedMatrix
    /\ phylip_data # <<>> => phylip_data = Phylip(genomes, ExpectedMatrix)

C8_Witness ==
    /\ pc = "done"
    /\ threads = 2
    /\ n = 3
    /\ Cardinality(GenomeSet) = 3
    /\ phylip_data = Phylip(genomes, ExpectedMatrix)

(***************************************************************************)
(* C9: the distance phase has exactly one item for each pair i < j,        *)
(* n*(n-1)/2 in all, none with i = j and none twice; the fill assigns each *)
(* off-diagonal cell exactly once, from the result of the item of its      *)
(* pair, and assigns no diagonal cell.                                     *)
(***************************************************************************)
C9_PairOwnership ==
    /\ PastSketch =>
          /\ 2 * Len(pairTasks) = n * (n - 1)
          /\ \A p \in 1..Len(pairTasks) :
                /\ pairTasks[p][1] \in 1..n /\ pairTasks[p][2] \in 1..n
                /\ pairTasks[p][1] < pairTasks[p][2]
          /\ \A i, j \in 1..n : i < j => Cardinality(ItemsOf(i, j)) = 1
          /\ \A p \in DOMAIN distances :
                distances[p].i = pairTasks[p][1] /\ distances[p].j = pairTasks[p][2]
    /\ PastFill =>
          \A i, j \in 1..n :
              /\ cellWrites[i][j] = IF i = j THEN 0 ELSE 1
              /\ i < j => \A p \in ItemsOf(i, j) :
                    matrix[i][j] = distances[p].dist /\ matrix[j][i] = distances[p].dist

C9_Witness ==
    /\ PastFill
    /\ n = 3
    /\ Len(pairTasks) = 3
    /\ cellWrites[3][1] = 1
    /\ cellWrites[2][2] = 0

(***************************************************************************)
(* C10: the value hash_fn hands to the engine is the same for a k-mer and  *)
(* for its reverse complement; while the shift of the mask stays within    *)
(* the word it is the smaller of the two, all 2*k bits of it.              *)
(***************************************************************************)
C10_StrandIndependent ==
    hashed # <<>> =>
        /\ hashed[1] = hashed[2]
        /\ 2 * Len(kmer) < WordBits =>
              /\ ~hashed[1].panic
              /\ hashed[1].val \in {kmer, reverse_complement(kmer)}
              /\ ~KmerLess(kmer, hashed[1].val)
              /\ ~KmerLess(reverse_complement(kmer), hashed[1].val)

C10_Witness ==
    /\ hashed # <<>>
    /\ Len(kmer) = MaxKmerLen
    /\ ~hashed[1].panic
    /\ hashed[1].val # kmer
    /\ hashed[2].val = reverse_complement(kmer)

====
